---- MODULE Spec2Model ----
(***************************************************************************)
(* Model of the product-card generation store (frontend/demo/lib/stores.ts) *)
(* and of the two page handlers that call it (frontend/demo/app/page.tsx).  *)
(*                                                                         *)
(* JavaScript strings are TLA+ strings.  A value that may be null or        *)
(* undefined is an option: <<>> is null, <<v>> is the value v; where a     *)
(* field of the service's JSON body can be absent, Undefined stands for it. *)
(* JavaScript runs each handler to completion up to its next await; the    *)
(* variable frame holds the arguments of the call that is executing        *)
(* synchronously, and no other step is taken while it is non-empty.        *)
(***************************************************************************)
EXTENDS Integers, Sequences, FiniteSets, TLC

\* ------------------------------------------------------------------ bounds
MaxAttempts == 2
MaxClock == 1
MaxDraw == 1

Attempts == 1..MaxAttempts

\* ------------------------------------------------------- option values
Null == <<>>
Some(v) == <<v>>
IsNull(o) == o = <<>>
Val(o) == o[1]

\* The value of a property that is absent (JavaScript undefined), which a
\* TypeError's message and a template literal tell apart from null.
Undefined == << <<>>, <<>> >>
IsUndefined(o) == o = Undefined

\* ------------------------------------------------------- string helpers
\* String.prototype.indexOf for a one-character needle; 0 when absent.
IndexOfChar(s, c) ==
  IF \E i \in 1..Len(s) : SubSeq(s, i, i) = c
  THEN CHOOSE i \in 1..Len(s) :
         /\ SubSeq(s, i, i) = c
         /\ \A j \in 1..(i - 1) : SubSeq(s, j, j) # c
  ELSE 0

\* String.prototype.includes
Includes(s, sub) ==
  \/ Len(sub) = 0
  \/ \E i \in 1..(Len(s) - Len(sub) + 1) : SubSeq(s, i, i + Len(sub) - 1) = sub

\* Array.prototype.includes on a sequence
ArrayIncludes(arr, v) == \E i \in 1..Len(arr) : arr[i] = v

UpperLetters == "ABCDEFGHIJKLMNOPQRSTUVWXYZ"
LowerLetters == "abcdefghijklmnopqrstuvwxyz"

LowerChar(c) ==
  LET i == IndexOfChar(UpperLetters, c)
  IN  IF i = 0 THEN c ELSE SubSeq(LowerLetters, i, i)

UpperChar(c) ==
  LET i == IndexOfChar(LowerLetters, c)
  IN  IF i = 0 THEN c ELSE SubSeq(UpperLetters, i, i)

RECURSIVE toLowerCase(_)
toLowerCase(s) ==
  IF Len(s) = 0 THEN ""
  ELSE LowerChar(SubSeq(s, 1, 1)) \o toLowerCase(SubSeq(s, 2, Len(s)))

\* String.prototype.split for a one-character separator
RECURSIVE Split(_, _)
Split(s, sep) ==
  LET i == IndexOfChar(s, sep)
  IN  IF i = 0 THEN << s >>
      ELSE << SubSeq(s, 1, i - 1) >> \o Split(SubSeq(s, i + 1, Len(s)), sep)

\* Array.prototype.join
RECURSIVE Join(_, _)
Join(arr, sep) ==
  IF Len(arr) = 0 THEN ""
  ELSE IF Len(arr) = 1 THEN arr[1]
  ELSE arr[1] \o sep \o Join(Tail(arr), sep)

\* Array.prototype.slice(0, n)
SliceFirst(arr, n) == SubSeq(arr, 1, IF Len(arr) < n THEN Len(arr) ELSE n)

\* word.charAt(0).toUpperCase() + word.slice(1)
Capitalize(word) ==
  IF Len(word) = 0 THEN ""
  ELSE UpperChar(SubSeq(word, 1, 1)) \o SubSeq(word, 2, Len(word))

\* ------------------------------------------------------- derivation
extractProductNameCaseSensitive(description) ==
  LET firstSentence == Split(description, ".")[1]
  IN  IF Includes(firstSentence, "hat") THEN "Premium Straw Hat"
      ELSE IF Includes(firstSentence, "shirt") THEN "Designer Shirt"
      ELSE IF Includes(firstSentence, "dress") THEN "Elegant Dress"
      ELSE IF Includes(firstSentence, "jacket") THEN "Stylish Jacket"
      ELSE LET words == SliceFirst(Split(firstSentence, " "), 3)
           IN  Join([i \in 1..Len(words) |-> Capitalize(words[i])], " ")

\* extractProductName (stores.ts 69-87)
extractProductName(description) ==
  LET firstSentence == Split(description, ".")[1]
      lower == toLowerCase(firstSentence)
  IN  IF Includes(lower, "hat") THEN "Premium Straw Hat"
      ELSE IF Includes(lower, "shirt") THEN "Designer Shirt"
      ELSE IF Includes(lower, "dress") THEN "Elegant Dress"
      ELSE IF Includes(lower, "jacket") THEN "Stylish Jacket"
      ELSE LET words == SliceFirst(Split(firstSentence, " "), 3)
           IN  Join([i \in 1..Len(words) |-> Capitalize(words[i])], " ")

Max(a, b) == IF a >= b THEN a ELSE b

\* The price before the random variation is added (stores.ts 91-101).
basePrice(description, tags) ==
  LET desc == toLowerCase(description)
      tagList == [i \in 1..Len(tags) |-> toLowerCase(tags[i])]
      b0 == IF Includes(desc, "hat") THEN 45 ELSE 50
      b1 == IF Includes(desc, "premium") \/ Includes(desc, "classic")
            THEN b0 + 20 ELSE b0
      b2 == IF ArrayIncludes(tagList, "luxury") \/ ArrayIncludes(tagList, "designer")
            THEN b1 + 30 ELSE b1
      b3 == IF ArrayIncludes(tagList, "handmade") \/ ArrayIncludes(tagList, "artisan")
            THEN b2 + 25 ELSE b2
      b4 == IF Includes(desc, "straw") /\ Includes(desc, "wide-brim")
            THEN b3 + 15 ELSE b3
  IN  b4

\* The values Math.floor(Math.random() * 20) can take.
RandomRange == 0..19

generatePriceVariationOffByOne(description, tags, rand20) ==
  LET variation == rand20 - 9
      finalPrice == Max(basePrice(description, tags) + variation, 25)
  IN  "$" \o ToString(finalPrice) \o ".00"

\* generatePrice (stores.ts 90-108); rand20 is Math.floor(Math.random() * 20).
generatePrice(description, tags, rand20) ==
  LET variation == rand20 - 10
      finalPrice == Max(basePrice(description, tags) + variation, 25)
  IN  "$" \o ToString(finalPrice) \o ".00"

\* ------------------------------------------------------- thrown values
\* A thrown value: isError is "error instanceof Error".
Error(msg) == [isError |-> TRUE, message |-> msg]
NonError(v) == [isError |-> FALSE, message |-> v]

\* ------------------------------------------------------- inputs
\* A File is modelled by its declared type; Null is a missing file.
allowedTypes ==
  <<"image/jpeg", "image/jpg", "image/png", "image/gif", "image/bmp", "image/webp">>

FileTypes == {"image/png", "application/pdf"}
Files == {Null} \cup {Some(t) : t \in FileTypes}
OutputFilenames == {Null, Some(""), Some("product_listing_1.png")}

\* What fetch can resolve with: status, statusText.
HttpResponses ==
  { [status |-> 200, statusText |-> "OK"],
    [status |-> 500, statusText |-> "Internal Server Error"] }

\* Response.ok
ResponseOk(response) == response.status \in 200..299

NoResponse == [status |-> 0, statusText |-> ""]

\* What response.text() can resolve with.
BodyTexts == {"internal error"}

\* What fetch, response.text() can reject with.
TransportFailures == { Error("Failed to fetch"), NonError("aborted") }

\* What response.json() can reject with.
ParseFailures == { Error("Unexpected token < in JSON at position 0") }

Analysis(description, tags) == [description |-> description, tags |-> tags]
Body(isNull, analysis, url) ==
  [isNull |-> isNull, clothing_analysis |-> analysis, generated_image_url |-> url]

HatBody ==
  Body(FALSE,
       Some(Analysis(Some("A classic straw wide-brim hat with leather trim."),
                     Some(<<"handmade", "luxury">>))),
       Some("/generated/hat.png"))
NullBody == Body(TRUE, Null, Null)
NoTagsBody ==
  Body(FALSE, Some(Analysis(Some("A shirt"), Undefined)), Some("/generated/x.png"))
NullAnalysisBody == Body(FALSE, Null, Some("/generated/x.png"))

\* What response.json() can resolve with.
JsonBodies ==
  { HatBody, NullBody, NoTagsBody, NullAnalysisBody }

\* The draws of Math.floor(Math.random() * 20) the store model explores, the
\* draws up to the bound MaxDraw; SpecPrice explores every draw.
RandomDraws == {d \in RandomRange : d <= MaxDraw}

\* Arguments of setError.
ErrorArgs == {Null, Some("manual")}

\* ------------------------------------------------------- the store
VARIABLES
  isGenerating,    \* store field
  generatedCards,  \* store field, newest first
  error,           \* store field: Null or Some(message)
  pc,              \* pc[a]: where attempt a of generateProductCard is
  frame,           \* arguments of the call executing synchronously, or Null
  response,        \* response[a]: the Response attempt a holds while it reads the body
  requests,        \* requests[a]: the form-data field lists attempt a posted
  now,             \* Date.now()
  page,            \* the page component's state
  engine,          \* the derivation engine's input and output, when run alone
  last,            \* history: the last operation on the store
  committed        \* history: cards of successful settles since the last clear

vars == << isGenerating, generatedCards, error, pc, frame, response, requests,
           now, page, engine, last, committed >>

storeVars == << isGenerating, generatedCards, error >>

Awaiting == {"awaitFetch", "awaitText", "awaitJson"}
Settled == {"succeeded", "failed", "rejected"}
InFlight(a) == pc[a] \in {"validating"} \cup Awaiting
\* The call of handleGenerateWithAI that awaits attempt a can continue: the
\* promise of the attempt is settled and the continuation is a queued microtask.
Resumable(a) == a \in page.awaiting /\ pc[a] \in Settled

\* No call executes synchronously and no microtask is queued: the event loop
\* can run the next event.
Idle == frame = Null /\ \A a \in Attempts : ~Resumable(a)

Event(kind, a, why, thrown, status, body, card) ==
  [kind |-> kind, attempt |-> a, why |-> why, thrown |-> thrown,
   status |-> status, body |-> body, card |-> card]

\* The page's useState values; awaiting holds the attempts whose
\* handleGenerateWithAI call awaits generateProductCard.
InitialPage ==
  [isModalOpen |-> FALSE, clothingImage |-> Null, modelImage |-> Null,
   awaiting |-> {}]

\* The page after the rest of handleGenerateWithAI, which follows the await
\* of attempt a: setClothingImage(null); setModelImage(null).
PageAfterSettle(p, a) ==
  IF a \in p.awaiting
  THEN [p EXCEPT !.clothingImage = Null, !.modelImage = Null,
                 !.awaiting = @ \ {a}]
  ELSE p

\* The derivation engine is not run on its own.
EngineOff == [phase |-> "off"]

\* The store and the page after construction.
InitStore ==
  /\ isGenerating = FALSE
  /\ generatedCards = <<>>
  /\ error = Null
  /\ pc = [a \in Attempts |-> "idle"]
  /\ frame = Null
  /\ response = [a \in Attempts |-> NoResponse]
  /\ requests = [a \in Attempts |-> <<>>]
  /\ now = 0
  /\ page = InitialPage
  /\ last = Event("init", 0, "", Null, 0, Null, Null)
  /\ committed = <<>>

Init ==
  /\ InitStore
  /\ engine = EngineOff

\* ------------------------------------------------------- zustand set
StoreState ==
  [isGenerating |-> isGenerating, generatedCards |-> generatedCards, error |-> error]

\* set(partial): the fields of partial replace those of the state.
Merge(state, partial) ==
  [k \in DOMAIN state |-> IF k \in DOMAIN partial THEN partial[k] ELSE state[k]]

Set(partial) ==
  LET s == Merge(StoreState, partial)
  IN  /\ isGenerating' = s.isGenerating
      /\ generatedCards' = s.generatedCards
      /\ error' = s.error

startPartialKeepsError == [isGenerating |-> TRUE]

\* set({ isGenerating: true, error: null })
startPartial == [isGenerating |-> TRUE, error |-> Null]

AppendCard(newCard, cards) == cards \o << newCard >>

OverwriteCards(newCard, cards) == << newCard >>

\* [newCard, ...state.generatedCards]
PrependCard(newCard, cards) == << newCard >> \o cards

successPartialKeepsFlag(state, newCard) ==
  [generatedCards |-> << newCard >> \o state.generatedCards, error |-> Null]

\* set(state => ({ generatedCards: [...], isGenerating: false, error: null }))
successPartial(state, newCard) ==
  [generatedCards |-> PrependCard(newCard, state.generatedCards),
   isGenerating |-> FALSE, error |-> Null]

\* error instanceof Error ? error.message : 'Failed to generate product card'
CaughtMessage(err) ==
  IF err.isError THEN err.message ELSE "Failed to generate product card"

failurePartialKeepsFlag(err) ==
  [error |-> Some(IF err.isError THEN err.message ELSE "Failed to generate product card")]

failurePartialClearsCards(err) ==
  [isGenerating |-> FALSE, generatedCards |-> <<>>,
   error |-> Some(IF err.isError THEN err.message ELSE "Failed to generate product card")]

failurePartialNoError(err) == [isGenerating |-> FALSE]

failurePartialStillGenerating(err) ==
  [isGenerating |-> TRUE,
   error |-> Some(IF err.isError THEN err.message ELSE "Failed to generate product card")]

\* set({ isGenerating: false, error: ... }) of the catch block
failurePartial(err) == [isGenerating |-> FALSE, error |-> Some(CaughtMessage(err))]

CaughtOnlyErrors(err) == err.isError

\* catch (error) catches every thrown value.
Caught(err) == TRUE

clearPartialResetsFlag == [generatedCards |-> <<>>, error |-> Null, isGenerating |-> FALSE]

\* set({ generatedCards: [], error: null })
clearPartial == [generatedCards |-> <<>>, error |-> Null]

setErrorPartialResetsFlag(e) == [error |-> e, isGenerating |-> FALSE]

\* set({ error })
setErrorPartial(e) == [error |-> e]

\* ------------------------------------------------------- validation
ValidationErrorSkipsModel(clothingImage, modelImage) ==
  IF IsNull(clothingImage) \/ IsNull(modelImage)
  THEN Some(Error("Both clothing and model images are required"))
  ELSE IF ~ArrayIncludes(allowedTypes, Val(clothingImage))
  THEN Some(Error("Clothing image must be a valid image file (jpg, jpeg, png, gif, bmp, webp)"))
  ELSE Null

ValidationErrorClothingTwice(clothingImage, modelImage) ==
  IF IsNull(clothingImage) \/ IsNull(modelImage)
  THEN Some(Error("Both clothing and model images are required"))
  ELSE IF ~ArrayIncludes(allowedTypes, Val(clothingImage))
  THEN Some(Error("Clothing image must be a valid image file (jpg, jpeg, png, gif, bmp, webp)"))
  ELSE IF ~ArrayIncludes(allowedTypes, Val(clothingImage))
  THEN Some(Error("Model image must be a valid image file (jpg, jpeg, png, gif, bmp, webp)"))
  ELSE Null

\* The error the validation of generateProductCard throws, or Null.
ValidationError(clothingImage, modelImage) ==
  IF IsNull(clothingImage) \/ IsNull(modelImage)
  THEN Some(Error("Both clothing and model images are required"))
  ELSE IF ~ArrayIncludes(allowedTypes, Val(clothingImage))
  THEN Some(Error("Clothing image must be a valid image file (jpg, jpeg, png, gif, bmp, webp)"))
  ELSE IF ~ArrayIncludes(allowedTypes, Val(modelImage))
  THEN Some(Error("Model image must be a valid image file (jpg, jpeg, png, gif, bmp, webp)"))
  ELSE Null

ValidationCause(clothingImage, modelImage) ==
  IF IsNull(clothingImage) \/ IsNull(modelImage) THEN "missing"
  ELSE IF ~ArrayIncludes(allowedTypes, Val(clothingImage)) THEN "clothingType"
  ELSE "modelType"

\* ------------------------------------------------------- remote client
\* if (outputFilename): undefined and the empty string are falsy.
Truthy(o) == ~IsNull(o) /\ Val(o) # ""

\* The fields generateProductListing appends to the form data.
FormData(clothingImage, modelImage, outputFilename) ==
  << "clothing_image", "model_image" >>
    \o (IF Truthy(outputFilename) THEN << "output_filename" >> ELSE <<>>)

ApiFailureWithoutBody(status, statusText, errorText) ==
  Error("API call failed: " \o ToString(status) \o " " \o statusText)

\* new Error(`API call failed: ${status} ${statusText} - ${errorText}`)
ApiFailure(status, statusText, errorText) ==
  Error("API call failed: " \o ToString(status) \o " " \o statusText
        \o " - " \o errorText)

\* ------------------------------------------------------- mapping
\* The TypeError of reading property name of o, which is undefined or null.
ReadError(o, name) ==
  Error("Cannot read properties of "
        \o (IF IsUndefined(o) THEN "undefined" ELSE "null")
        \o " (reading '" \o name \o "')")

\* The TypeError mapApiResponseToProductCard throws on this body, or Null.
MapError(body) ==
  IF body.isNull
  THEN Some(Error("Cannot destructure property 'clothing_analysis' of 'apiResponse' as it is null."))
  ELSE IF IsUndefined(body.clothing_analysis) \/ IsNull(body.clothing_analysis)
  THEN Some(ReadError(body.clothing_analysis, "description"))
  ELSE IF IsUndefined(Val(body.clothing_analysis).description)
          \/ IsNull(Val(body.clothing_analysis).description)
  THEN Some(ReadError(Val(body.clothing_analysis).description, "split"))
  ELSE IF IsUndefined(Val(body.clothing_analysis).tags)
          \/ IsNull(Val(body.clothing_analysis).tags)
  THEN Some(ReadError(Val(body.clothing_analysis).tags, "map"))
  ELSE Null

\* `http://localhost:8000${generated_image_url}`
ImageUrl(url) ==
  "http://localhost:8000"
    \o (IF IsUndefined(url) THEN "undefined" ELSE IF IsNull(url) THEN "null" ELSE Val(url))

mapApiResponseToProductCardConstantId(body, time, rand20) ==
  LET description == Val(Val(body.clothing_analysis).description)
      tags == Val(Val(body.clothing_analysis).tags)
  IN  [id |-> "0",
       productName |-> extractProductName(description),
       price |-> generatePrice(description, tags, rand20),
       description |-> description,
       tags |-> tags,
       modelImage |-> ImageUrl(body.generated_image_url),
       productImage |-> ImageUrl(body.generated_image_url)]

\* mapApiResponseToProductCard on a body it does not throw on.
mapApiResponseToProductCard(body, time, rand20) ==
  LET description == Val(Val(body.clothing_analysis).description)
      tags == Val(Val(body.clothing_analysis).tags)
  IN  [id |-> ToString(time),
       productName |-> extractProductName(description),
       price |-> generatePrice(description, tags, rand20),
       description |-> description,
       tags |-> tags,
       modelImage |-> ImageUrl(body.generated_image_url),
       productImage |-> ImageUrl(body.generated_image_url)]

\* The cards the mapping yields on the explored bodies, clock values and draws
\* (the mapping tabulated once over its inputs).
MappedCards ==
  [body \in {b \in JsonBodies : MapError(b) = Null}, time \in 0..MaxClock,
   rand20 \in RandomDraws |-> mapApiResponseToProductCard(body, time, rand20)]

\* ------------------------------------------------------- actions
AdmitWhenNotGenerating(state) == ~state.isGenerating

\* Whether generateProductCard accepts a call in this store state: it has no
\* check of isGenerating and accepts every call.
Admit(state) == TRUE

\* generateProductCard up to the try block: the attempt's start step.
\* Attempts are numbered in the order they start.
Start(a, clothingImage, modelImage, outputFilename) ==
  /\ Idle
  /\ pc[a] = "idle"
  /\ \A b \in Attempts : b < a => pc[b] # "idle"
  /\ Admit(StoreState)
  /\ Set(startPartial)
  /\ pc' = [pc EXCEPT ![a] = "validating"]
  /\ frame' = Some([attempt |-> a, clothingImage |-> clothingImage,
                    modelImage |-> modelImage, outputFilename |-> outputFilename])
  /\ last' = Event("start", a, "", Null, 0, Null, Null)
  /\ UNCHANGED << response, requests, now, page, committed, engine >>

\* The catch block of generateProductCard, entered with the thrown value err.
Catch(a, err, why, status, body) ==
  /\ IF Caught(err)
     THEN /\ Set(failurePartial(err))
          /\ pc' = [pc EXCEPT ![a] = "failed"]
     ELSE /\ UNCHANGED storeVars
          /\ pc' = [pc EXCEPT ![a] = "rejected"]
  /\ frame' = Null
  /\ last' = Event("settle", a, why, Some(err), status, body, Null)
  /\ response' = [response EXCEPT ![a] = NoResponse]
  /\ UNCHANGED << requests, now, page, committed, engine >>

\* The validation, and when it passes the call of fetch.
Validate(a) ==
  /\ frame # Null
  /\ Val(frame).attempt = a
  /\ pc[a] = "validating"
  /\ LET f == Val(frame)
         err == ValidationError(f.clothingImage, f.modelImage)
     IN  IF err # Null
         THEN Catch(a, Val(err), ValidationCause(f.clothingImage, f.modelImage), 0, Null)
         ELSE /\ requests' = [requests EXCEPT ![a] =
                   Append(@, FormData(f.clothingImage, f.modelImage, f.outputFilename))]
              /\ pc' = [pc EXCEPT ![a] = "awaitFetch"]
              /\ frame' = Null
              /\ UNCHANGED << storeVars, response, now, page, last, committed, engine >>

\* fetch resolves with a response.
FetchResolve(a, r) ==
  /\ Idle
  /\ pc[a] = "awaitFetch"
  /\ response' = [response EXCEPT ![a] = r]
  /\ pc' = [pc EXCEPT ![a] = IF ResponseOk(r) THEN "awaitJson" ELSE "awaitText"]
  /\ UNCHANGED << storeVars, frame, requests, now, page, last, committed, engine >>

\* fetch rejects.
FetchReject(a, err) ==
  /\ Idle
  /\ pc[a] = "awaitFetch"
  /\ Catch(a, err, "transport", 0, Null)

\* response.text() resolves: the API failure is thrown.
TextResolve(a, errorText) ==
  /\ Idle
  /\ pc[a] = "awaitText"
  /\ Catch(a, ApiFailure(response[a].status, response[a].statusText, errorText),
           "http", response[a].status, Some(errorText))

\* response.text() rejects.
TextReject(a, err) ==
  /\ Idle
  /\ pc[a] = "awaitText"
  /\ Catch(a, err, "bodyRead", response[a].status, Null)

\* response.json() rejects.
JsonReject(a, err) ==
  /\ Idle
  /\ pc[a] = "awaitJson"
  /\ Catch(a, err, "parse", response[a].status, Null)

\* response.json() resolves: the body is mapped and the card committed.
JsonResolve(a, body, rand20) ==
  /\ Idle
  /\ pc[a] = "awaitJson"
  /\ IF MapError(body) # Null
     THEN /\ rand20 = 0
          /\ Catch(a, Val(MapError(body)), "map", response[a].status, Null)
     ELSE LET newCard == MappedCards[body, now, rand20]
          IN  /\ Set(successPartial(StoreState, newCard))
              /\ pc' = [pc EXCEPT ![a] = "succeeded"]
              /\ committed' = Append(committed, newCard)
              /\ last' = Event("settle", a, "success", Null, response[a].status, Null,
                               Some(newCard))
              /\ response' = [response EXCEPT ![a] = NoResponse]
              /\ UNCHANGED << frame, requests, now, page, engine >>

clearCards ==
  /\ Idle
  /\ Set(clearPartial)
  /\ committed' = <<>>
  /\ last' = Event("clear", 0, "", Null, 0, Null, Null)
  /\ UNCHANGED << pc, frame, response, requests, now, page, engine >>

setError(e) ==
  /\ Idle
  /\ Set(setErrorPartial(e))
  /\ last' = Event("setError", 0, "", e, 0, Null, Null)
  /\ UNCHANGED << pc, frame, response, requests, now, page, committed, engine >>

\* The Dismiss button of the page, rendered while error is truthy.
handleDismissError ==
  /\ Idle
  /\ Truthy(error)
  /\ Set(setErrorPartial(Null))
  /\ last' = Event("dismiss", 0, "", Null, 0, Null, Null)
  /\ UNCHANGED << pc, frame, response, requests, now, page, committed, engine >>

\* The clock advances.
Tick ==
  /\ Idle
  /\ now < MaxClock
  /\ now' = now + 1
  /\ UNCHANGED << storeVars, pc, frame, response, requests, page, last, committed, engine >>

\* The wall clock Date.now() reads is set back.
ClockSetBack ==
  /\ Idle
  /\ \E t \in 0..(now - 1) : now' = t
  /\ UNCHANGED << storeVars, pc, frame, response, requests, page, last, committed, engine >>

Next ==
  \/ \E a \in Attempts, c \in Files, m \in Files, f \in OutputFilenames :
       Start(a, c, m, f)
  \/ \E a \in Attempts : Validate(a)
  \/ \E a \in Attempts, r \in HttpResponses : FetchResolve(a, r)
  \/ \E a \in Attempts, err \in TransportFailures : FetchReject(a, err)
  \/ \E a \in Attempts, b \in BodyTexts : TextResolve(a, b)
  \/ \E a \in Attempts, err \in TransportFailures : TextReject(a, err)
  \/ \E a \in Attempts, err \in ParseFailures : JsonReject(a, err)
  \/ \E a \in Attempts, body \in JsonBodies, rand20 \in RandomDraws :
       JsonResolve(a, body, rand20)
  \/ clearCards
  \/ \E e \in ErrorArgs : setError(e)
  \/ handleDismissError
  \/ Tick
  \/ ClockSetBack

Spec == Init /\ [][Next]_vars

\* The steps of attempt a after its start step: the synchronous validation,
\* and the settling of the promises it awaits.
Progress(a) ==
  \/ Validate(a)
  \/ \E r \in HttpResponses : FetchResolve(a, r)
  \/ \E err \in TransportFailures : FetchReject(a, err)
  \/ \E b \in BodyTexts : TextResolve(a, b)
  \/ \E err \in TransportFailures : TextReject(a, err)
  \/ \E err \in ParseFailures : JsonReject(a, err)
  \/ \E body \in JsonBodies, rand20 \in RandomDraws : JsonResolve(a, body, rand20)

\* The store when the event loop runs a continuation that is ready and a
\* remote call that is awaited eventually returns or fails.
SpecLive == Spec /\ WF_vars(\E a \in Attempts : Progress(a))

\* ------------------------------------------------------- derivation alone
\* The elements of seq at the positions in S, in the order of seq.
RECURSIVE Pick(_, _)
Pick(seq, S) ==
  IF seq = <<>> THEN <<>>
  ELSE (IF Len(seq) \in S THEN Pick(SubSeq(seq, 1, Len(seq) - 1), S) \o << seq[Len(seq)] >>
        ELSE Pick(SubSeq(seq, 1, Len(seq) - 1), S))

\* Words a description is built from, and tags, for generatePrice.
PriceWords == << "Hat", "PREMIUM", "classic", "straw", "wide-brim" >>
PriceTags == << "Luxury", "designer", "handmade", "ARTISAN", "luxury-line" >>

\* The description made of the chosen words.
PriceDescription(S) == "A " \o Join(Pick(PriceWords, S), " ") \o " item."

InitPrice ==
  /\ InitStore
  /\ engine \in [phase : {"input"}, words : SUBSET (1..Len(PriceWords)),
                  tags : SUBSET (1..Len(PriceTags)), rand20 : RandomRange]

\* generatePrice applied to the chosen description, tags and random draw.
DerivePrice ==
  /\ engine.phase = "input"
  /\ engine' = [phase |-> "priced", words |-> engine.words, tags |-> engine.tags,
                rand20 |-> engine.rand20,
                price |-> generatePrice(PriceDescription(engine.words),
                                        Pick(PriceTags, engine.tags), engine.rand20)]
  /\ UNCHANGED << storeVars, pc, frame, response, requests, now, page, last,
                  committed >>

SpecPrice == InitPrice /\ [][DerivePrice]_vars

\* Words the first sentence of a description is built from, and what may
\* follow the first sentence, for extractProductName.
NameWords == << "CHAT", "Shirt", "DRESS", "jacket", "blue", "denim", "jeans", "sLim" >>
NameTails == {"", ".", ". A hat and shirt"}

RECURSIVE ReverseSeq(_)
ReverseSeq(seq) ==
  IF seq = <<>> THEN <<>> ELSE ReverseSeq(Tail(seq)) \o << Head(seq) >>

\* The chosen words in the chosen order.
NameWordsOf(e) ==
  IF e.reversed THEN ReverseSeq(Pick(NameWords, e.words)) ELSE Pick(NameWords, e.words)

\* The description: the chosen words, then the tail.
NameDescription(e) == Join(NameWordsOf(e), " ") \o e.tail

InitName ==
  /\ InitStore
  /\ engine \in [phase : {"input"}, words : SUBSET (1..Len(NameWords)),
                  reversed : BOOLEAN, tail : NameTails]

\* extractProductName applied to the chosen description.
DeriveName ==
  /\ engine.phase = "input"
  /\ engine' = [phase |-> "named", words |-> engine.words,
                reversed |-> engine.reversed, tail |-> engine.tail,
                name |-> extractProductName(NameDescription(engine))]
  /\ UNCHANGED << storeVars, pc, frame, response, requests, now, page, last,
                  committed >>

SpecName == InitName /\ [][DeriveName]_vars

\* ------------------------------------------------------- the page
\* The files a file input can hand to an upload handler.
UploadedFiles == {Some(t) : t \in FileTypes}

GenerateDisabledIgnoresFlag(p, state) ==
  IsNull(p.clothingImage) \/ IsNull(p.modelImage)

\* disabled={!clothingImage || !modelImage || isGenerating}
GenerateDisabled(p, state) ==
  IsNull(p.clothingImage) \/ IsNull(p.modelImage) \/ state.isGenerating

\* onOpenChange of the dialog.
setIsModalOpen(open) ==
  /\ Idle
  /\ page.isModalOpen # open
  /\ page' = [page EXCEPT !.isModalOpen = open]
  /\ UNCHANGED << storeVars, pc, frame, response, requests, now, last, committed, engine >>

\* The file inputs are inside the dialog.
handleClothingUpload(file) ==
  /\ Idle
  /\ page.isModalOpen
  /\ page' = [page EXCEPT !.clothingImage = file]
  /\ UNCHANGED << storeVars, pc, frame, response, requests, now, last, committed, engine >>

handleModelUpload(file) ==
  /\ Idle
  /\ page.isModalOpen
  /\ page' = [page EXCEPT !.modelImage = file]
  /\ UNCHANGED << storeVars, pc, frame, response, requests, now, last, committed, engine >>

\* A click on the enabled generate button: handleGenerateWithAI up to its
\* await, that is setIsModalOpen(false), setError(null) and the start step of
\* generateProductCard on the selected images.
handleGenerateWithAI(a) ==
  /\ Idle
  /\ page.isModalOpen
  /\ ~GenerateDisabled(page, StoreState)
  /\ pc[a] = "idle"
  /\ \A b \in Attempts : b < a => pc[b] # "idle"
  /\ LET afterSetError == Merge(StoreState, setErrorPartial(Null))
         afterStart == Merge(afterSetError, startPartial)
     IN  /\ Admit(afterSetError)
         /\ isGenerating' = afterStart.isGenerating
         /\ generatedCards' = afterStart.generatedCards
         /\ error' = afterStart.error
  /\ pc' = [pc EXCEPT ![a] = "validating"]
  /\ frame' = Some([attempt |-> a, clothingImage |-> page.clothingImage,
                    modelImage |-> page.modelImage,
                    outputFilename |->
                      Some("product_listing_" \o ToString(now) \o ".png")])
  /\ page' = [page EXCEPT !.isModalOpen = FALSE, !.awaiting = @ \cup {a}]
  /\ last' = Event("start", a, "", Null, 0, Null, Null)
  /\ UNCHANGED << response, requests, now, committed, engine >>

\* The continuation of handleGenerateWithAI after its await: a microtask that
\* runs once the attempt has settled, before the event loop runs another event.
handleGenerateWithAIResume(a) ==
  /\ frame = Null
  /\ Resumable(a)
  /\ page' = PageAfterSettle(page, a)
  /\ UNCHANGED << storeVars, pc, frame, response, requests, now, last, committed, engine >>

\* The store driven by the page's generate button only; clearCards and
\* setError may still be called at any time.
NextUI ==
  \/ \E open \in BOOLEAN : setIsModalOpen(open)
  \/ \E file \in UploadedFiles : handleClothingUpload(file)
  \/ \E file \in UploadedFiles : handleModelUpload(file)
  \/ \E a \in Attempts : handleGenerateWithAI(a)
  \/ \E a \in Attempts : handleGenerateWithAIResume(a)
  \/ \E a \in Attempts : Validate(a)
  \/ \E a \in Attempts, r \in HttpResponses : FetchResolve(a, r)
  \/ \E a \in Attempts, err \in TransportFailures : FetchReject(a, err)
  \/ \E a \in Attempts, b \in BodyTexts : TextResolve(a, b)
  \/ \E a \in Attempts, err \in TransportFailures : TextReject(a, err)
  \/ \E a \in Attempts, err \in ParseFailures : JsonReject(a, err)
  \/ \E a \in Attempts, body \in JsonBodies, rand20 \in RandomDraws :
       JsonResolve(a, body, rand20)
  \/ clearCards
  \/ \E e \in ErrorArgs : setError(e)
  \/ handleDismissError
  \/ Tick
  \/ ClockSetBack

SpecUI == Init /\ [][NextUI]_vars

\* ------------------------------------------------------- properties
\* The MIME types the specification allows.
SpecTypes ==
  {"image/jpeg", "image/jpg", "image/png", "image/gif", "image/bmp", "image/webp"}

\* The image is present and its declared type is not allowed.
BadType(image) == ~IsNull(image) /\ Val(image) \notin SpecTypes

\* The message names the image whose type failed: the clothing image when its
\* type is bad, else the model image; and when both images are present it
\* names no other image.
NamesFailedImage(msg, clothingImage, modelImage) ==
  LET lower == toLowerCase(msg)
      failed == IF BadType(clothingImage) THEN "clothing" ELSE "model"
      other == IF BadType(clothingImage) THEN "model" ELSE "clothing"
  IN  /\ Includes(lower, failed)
      /\ (~IsNull(clothingImage) /\ ~IsNull(modelImage)) => ~Includes(lower, other)

\* The message a settle step stores for the thrown value.
MessageOf(thrown) ==
  IF thrown.isError THEN thrown.message ELSE "Failed to generate product card"

\* C1: an attempt whose clothing or model image has a disallowed MIME type
\* settles in its validation step without issuing a request, leaves
\* generatedCards as it was and stores a message naming the image that failed;
\* a settled attempt never issues a request afterwards.
C1_BadTypeNoRequest ==
  [][\A a \in Attempts :
       /\ ( /\ pc[a] = "validating"
            /\ frame # Null
            /\ Val(frame).attempt = a
            /\ BadType(Val(frame).clothingImage) \/ BadType(Val(frame).modelImage) )
          => /\ pc'[a] = "failed"
             /\ requests[a] = <<>>
             /\ requests' = requests
             /\ generatedCards' = generatedCards
             /\ error' # Null
             /\ NamesFailedImage(Val(error'), Val(frame).clothingImage,
                                 Val(frame).modelImage)
       /\ pc[a] \in Settled => (pc'[a] = pc[a] /\ requests'[a] = requests[a])
    ]_vars

\* C1 witness: an attempt failed on the model image's type, with no request,
\* while cards of an earlier attempt are in the list.
C1_Witness ==
  /\ last.kind = "settle"
  /\ last.why = "modelType"
  /\ pc[last.attempt] = "failed"
  /\ requests[last.attempt] = <<>>
  /\ error = Some("Model image must be a valid image file (jpg, jpeg, png, gif, bmp, webp)")
  /\ Len(generatedCards) >= 1

\* C2: a successful settle step puts the new card in front of exactly the
\* cards that were there, and sets isGenerating to false and error to null.
C2_SuccessPrepends ==
  [][\A a \in Attempts :
       (pc[a] = "awaitJson" /\ pc'[a] = "succeeded")
         => /\ Len(generatedCards') = Len(generatedCards) + 1
            /\ Head(generatedCards') = Val(last'.card)
            /\ Tail(generatedCards') = generatedCards
            /\ isGenerating' = FALSE
            /\ error' = Null
    ]_vars

\* C2 witness: a success settled onto a list that held a different card.
C2_Witness ==
  /\ last.kind = "settle"
  /\ last.why = "success"
  /\ Len(generatedCards) >= 2
  /\ generatedCards[1] = Val(last.card)
  /\ generatedCards[2] # generatedCards[1]
  /\ isGenerating = FALSE
  /\ error = Null

\* C3: every attempt that settles without success settles as failed, never
\* as a rejection of its promise, and its settle step sets isGenerating to
\* false, error to a message and leaves generatedCards unchanged.
C3_FailuresCaught ==
  [][\A a \in Attempts :
       /\ pc'[a] # "rejected"
       /\ (InFlight(a) /\ pc'[a] \in Settled /\ pc'[a] # "succeeded")
            => /\ pc'[a] = "failed"
               /\ last'.thrown # Null
               /\ isGenerating' = FALSE
               /\ error' = Some(MessageOf(Val(last'.thrown)))
               /\ generatedCards' = generatedCards
    ]_vars

\* C3 witness: a value that is not an Error was thrown by the transport and
\* caught, with a card in the list.
C3_Witness ==
  /\ last.kind = "settle"
  /\ last.why = "transport"
  /\ ~Val(last.thrown).isError
  /\ pc[last.attempt] = "failed"
  /\ error = Some("Failed to generate product card")
  /\ isGenerating = FALSE
  /\ Len(generatedCards) >= 1

\* C4: when the service answered with a non-success status and the body text
\* was read, the settle step stores a message containing the status code and
\* the body text, sets isGenerating to false and leaves generatedCards.
C4_HttpFailureMessage ==
  [][\A a \in Attempts :
       (pc[a] = "awaitText" /\ pc'[a] \in Settled /\ last'.body # Null)
         => /\ error' # Null
            /\ Includes(Val(error'), ToString(response[a].status))
            /\ Includes(Val(error'), Val(last'.body))
            /\ isGenerating' = FALSE
            /\ generatedCards' = generatedCards
    ]_vars

\* C4 witness: status 500 with body "internal error".
C4_Witness ==
  /\ last.kind = "settle"
  /\ last.why = "http"
  /\ last.status = 500
  /\ last.body = Some("internal error")
  /\ error = Some("API call failed: 500 Internal Server Error - internal error")
  /\ isGenerating = FALSE
  /\ Len(generatedCards) >= 1

\* C5: a clearCards step, in whatever state it is taken, empties
\* generatedCards, sets error to null and leaves isGenerating.
C5_ClearCards ==
  [][clearCards => /\ generatedCards' = <<>>
                   /\ error' = Null
                   /\ isGenerating' = isGenerating
    ]_vars

\* C5 witness: cleared while an attempt is in flight and isGenerating is true,
\* after another attempt had committed a card.
C5_Witness ==
  /\ last.kind = "clear"
  /\ generatedCards = <<>>
  /\ error = Null
  /\ isGenerating = TRUE
  /\ \E a, b \in Attempts : pc[a] = "succeeded" /\ pc[b] \in Awaiting

\* C6: a setError(e) step, in whatever state it is taken, sets error to e and
\* leaves isGenerating and generatedCards; the page's dismiss handler is
\* setError(null).
C6_SetError ==
  [][ /\ \A e \in ErrorArgs :
           setError(e) => /\ error' = e
                          /\ isGenerating' = isGenerating
                          /\ generatedCards' = generatedCards
      /\ handleDismissError => /\ error' = Null
                               /\ isGenerating' = isGenerating
                               /\ generatedCards' = generatedCards
    ]_vars

\* C6 witness: a message was set while an attempt is in flight, isGenerating
\* is true and a card is in the list.
C6_Witness ==
  /\ last.kind = "setError"
  /\ error = Some("manual")
  /\ isGenerating = TRUE
  /\ Len(generatedCards) >= 1
  /\ \E a \in Attempts : pc[a] \in Awaiting

RECURSIVE Reverse(_)
Reverse(seq) ==
  IF seq = <<>> THEN <<>> ELSE Reverse(Tail(seq)) \o << Head(seq) >>

Succeeded == {a \in Attempts : pc[a] = "succeeded"}

\* C7: generatedCards holds exactly the cards of the successful settles since
\* the last clearCards, the last settled first, and never more cards than
\* attempts that succeeded: no successful result is lost or overwritten.
C7_NoResultLost ==
  /\ generatedCards = Reverse(committed)
  /\ Len(generatedCards) <= Cardinality(Succeeded)
  /\ (last.kind = "settle" /\ last.why = "success")
       => (generatedCards # <<>> /\ Head(generatedCards) = Val(last.card))

\* C7 witness: attempt 2 started after attempt 1 and settled before it (the
\* two ran concurrently), both succeeded, and both cards are in the list with
\* the card of attempt 1, settled last, first.
C7_Witness ==
  /\ pc[1] = "succeeded"
  /\ pc[2] = "succeeded"
  /\ last.kind = "settle"
  /\ last.attempt = 1
  /\ Len(generatedCards) = 2
  /\ generatedCards[1] = Val(last.card)
  /\ generatedCards[1] # generatedCards[2]

\* C8: when the last operation on the store was an attempt's settle step, then
\* isGenerating is false and error is null if that attempt succeeded and is
\* its failure message if it failed, whatever attempts settled before it.
C8_LastSettleWins ==
  (last.kind = "settle")
    => /\ isGenerating = FALSE
       /\ error = IF last.why = "success" THEN Null
                  ELSE Some(MessageOf(Val(last.thrown)))

\* C8 witness: attempt 2 started after attempt 1 and succeeded before
\* attempt 1 settled (the two ran concurrently); attempt 1 settled last and
\* failed; all attempts started have settled.
C8_Witness ==
  /\ pc[2] = "succeeded"
  /\ pc[1] = "failed"
  /\ last.kind = "settle"
  /\ last.attempt = 1
  /\ \A a \in Attempts : ~InFlight(a)
  /\ isGenerating = FALSE
  /\ error = Some("Failed to fetch")

\* C9: while an attempt awaits the remote service, a further call of
\* generateProductCard is accepted (as long as the model has an attempt left).
C9_NoMutualExclusion ==
  ( /\ Idle
    /\ \E a \in Attempts : pc[a] \in Awaiting
    /\ \E a \in Attempts : pc[a] = "idle" )
    => ENABLED (\E a \in Attempts, c \in Files, m \in Files, f \in OutputFilenames :
                  Start(a, c, m, f))

\* C9 witness: attempt 2 was started while attempt 1 awaited the service, has
\* settled and set isGenerating to false, and attempt 1 is still awaiting.
C9_Witness ==
  /\ isGenerating = FALSE
  /\ pc[1] \in Awaiting
  /\ pc[2] \in Settled
  /\ last.kind = "settle"
  /\ last.attempt = 2

\* C10: isGenerating is true only if some attempt has started and has not
\* settled.
C10_GeneratingImpliesInFlight ==
  isGenerating = TRUE => \E a \in Attempts : InFlight(a)

\* C10 witness: isGenerating is true with one attempt settled and another in
\* flight, after clearCards ran.
C10_Witness ==
  /\ isGenerating = TRUE
  /\ last.kind = "clear"
  /\ \E a \in Attempts : pc[a] \in Settled
  /\ Cardinality({a \in Attempts : InFlight(a)}) = 1

\* C11: when attempts start only through the page's generate button, at most
\* one attempt is in flight and isGenerating is true exactly when one is.
C11_ButtonSerializes ==
  /\ Cardinality({a \in Attempts : InFlight(a)}) <= 1
  /\ isGenerating = TRUE <=> \E a \in Attempts : InFlight(a)

\* C11 witness: a second attempt started from the page awaits the service
\* after the first settled, and clearCards ran while it is in flight.
C11_Witness ==
  /\ page.awaiting = {2}
  /\ pc[1] \in Settled
  /\ pc[2] \in Awaiting
  /\ last.kind = "clear"
  /\ isGenerating = TRUE

\* The steps the lifecycle of one attempt allows.
LifecycleStep(from, to) ==
  \/ from = "idle" /\ to = "validating"
  \/ from = "validating" /\ to \in {"awaitFetch", "failed"}
  \/ from = "awaitFetch" /\ to \in {"awaitText", "awaitJson", "failed"}
  \/ from = "awaitText" /\ to = "failed"
  \/ from = "awaitJson" /\ to \in {"succeeded", "failed"}

\* C12: an attempt moves only along idle, validating, calling, then succeeded
\* or failed (or from validating to failed), and takes no step once settled;
\* when the remote call returns or fails no attempt stays in flight for ever,
\* so that every started attempt, which never is idle again, eventually is
\* succeeded or failed; and when no attempt is in flight isGenerating is false.
C12_Lifecycle ==
  /\ [][\A a \in Attempts : pc'[a] # pc[a] => LifecycleStep(pc[a], pc'[a])]_vars
  /\ \A a \in Attempts : []<>(pc[a] \in {"idle", "succeeded", "failed"})
  /\ []((\A a \in Attempts : ~InFlight(a)) => isGenerating = FALSE)

\* C12 witness: one attempt went through the call and succeeded, another
\* failed in validation without a request; none is in flight.
C12_Witness ==
  /\ pc[1] = "succeeded"
  /\ requests[1] # <<>>
  /\ pc[2] = "failed"
  /\ requests[2] = <<>>
  /\ \A a \in Attempts : ~InFlight(a)
  /\ isGenerating = FALSE

\* C13: every step leaves generatedCards unchanged, or puts one new card in
\* front of the unchanged list (a successful settle), or empties it
\* (clearCards); a failed settle and setError leave it unchanged.
C13_AppendOnlyFromFront ==
  [][ /\ \/ generatedCards' = generatedCards
         \/ /\ \E a \in Attempts : pc[a] = "awaitJson" /\ pc'[a] = "succeeded"
            /\ Len(generatedCards') = Len(generatedCards) + 1
            /\ Tail(generatedCards') = generatedCards
         \/ /\ clearCards
            /\ generatedCards' = <<>>
      /\ (\E a \in Attempts : InFlight(a) /\ pc'[a] \in {"failed", "rejected"})
           => generatedCards' = generatedCards
      /\ ((\E e \in ErrorArgs : setError(e)) \/ handleDismissError)
           => generatedCards' = generatedCards
    ]_vars

\* C13 witness: a failed settle left the card of an earlier success in the
\* list as it was.
C13_Witness ==
  /\ last.kind = "settle"
  /\ last.why = "http"
  /\ \E a \in Attempts : pc[a] = "succeeded"
  /\ Len(generatedCards) = 1
  /\ generatedCards = Reverse(committed)

\* Both images are present and of a type the specification allows.
ValidInputs(f) ==
  /\ ~IsNull(f.clothingImage)
  /\ ~IsNull(f.modelImage)
  /\ Val(f.clothingImage) \in SpecTypes
  /\ Val(f.modelImage) \in SpecTypes

\* C14: the validation step of an attempt issues one request when both images
\* are present and allowed and none otherwise; no other step issues a request,
\* so no attempt ever has more than one; a failing settle starts no attempt;
\* and an attempt adds a card only in its one successful settle step.
C14_OneRequestNoRetry ==
  [][\A a \in Attempts :
       /\ Len(requests[a]) <= 1
       /\ (pc[a] = "validating" /\ pc'[a] # pc[a])
            => /\ requests[a] = <<>>
               /\ Len(requests'[a]) = IF ValidInputs(Val(frame)) THEN 1 ELSE 0
       /\ (pc[a] # "validating") => requests'[a] = requests[a]
       /\ (InFlight(a) /\ pc'[a] \in {"failed", "rejected"})
            => \A b \in Attempts : b # a => pc'[b] = pc[b]
       /\ Len(generatedCards') > Len(generatedCards)
            => /\ Len(generatedCards') = Len(generatedCards) + 1
               /\ \E b \in Attempts : pc[b] = "awaitJson" /\ pc'[b] = "succeeded"
       /\ pc[a] \in Settled => pc'[a] = pc[a]
    ]_vars

\* C14 witness: an attempt failed in transport after its one request, and no
\* other attempt has started.
C14_Witness ==
  /\ pc[1] = "failed"
  /\ last.kind = "settle"
  /\ last.why = "transport"
  /\ Len(requests[1]) = 1
  /\ \A a \in Attempts : a # 1 => (pc[a] = "idle" /\ requests[a] = <<>>)

\* C15: after a failed attempt left error set and isGenerating false, a new
\* call of generateProductCard is accepted (while the model has an attempt
\* left) and setError(null) can be called; every start step sets error to
\* null and isGenerating to true and leaves the attempt before its
\* validation; setError(null) sets error to null.
C15_UsableAfterFailure ==
  /\ []( ( /\ Idle
           /\ last.kind = "settle"
           /\ last.why # "success"
           /\ error # Null
           /\ isGenerating = FALSE
           /\ \E a \in Attempts : pc[a] = "idle" )
         => /\ ENABLED (\E a \in Attempts, c \in Files, m \in Files,
                           f \in OutputFilenames : Start(a, c, m, f))
            /\ ENABLED setError(Null) )
  /\ [][ /\ \A a \in Attempts :
              (pc[a] = "idle" /\ pc'[a] # "idle")
                => /\ pc'[a] = "validating"
                   /\ frame' # Null
                   /\ error' = Null
                   /\ isGenerating' = TRUE
                   /\ generatedCards' = generatedCards
         /\ setError(Null) => error' = Null
       ]_vars

\* C15 witness: attempt 1 failed in validation, so before attempt 2 started;
\* attempt 2 then succeeded and its card is in the list, with error null.
C15_Witness ==
  /\ pc[1] = "failed"
  /\ requests[1] = <<>>
  /\ pc[2] = "succeeded"
  /\ last.kind = "settle"
  /\ last.attempt = 2
  /\ generatedCards # <<>>
  /\ Head(generatedCards) = Val(last.card)
  /\ error = Null
  /\ isGenerating = FALSE

\* The base price the specification gives for the chosen words and tags:
\* words 1 Hat, 2 PREMIUM, 3 classic, 4 straw, 5 wide-brim; tags 1 Luxury,
\* 2 designer, 3 handmade, 4 ARTISAN, 5 luxury-line (no keyword).
SpecBase(S, T) ==
  (IF 1 \in S THEN 45 ELSE 50)
  + (IF 2 \in S \/ 3 \in S THEN 20 ELSE 0)
  + (IF 1 \in T \/ 2 \in T THEN 30 ELSE 0)
  + (IF 3 \in T \/ 4 \in T THEN 25 ELSE 0)
  + (IF 4 \in S /\ 5 \in S THEN 15 ELSE 0)

\* C16: the price is "$n.00" with n the larger of 25 and the base price plus
\* the perturbation v in -10..9; n is at least 25, and for classic, straw,
\* wide-brim, hat with tags handmade and luxury it lies in 125..144.
C16_PriceFormula ==
  engine.phase = "priced"
    => LET v == engine.rand20 - 10
           sum == SpecBase(engine.words, engine.tags) + v
           n == IF sum >= 25 THEN sum ELSE 25
       IN  /\ v \in -10..9
           /\ engine.price = "$" \o ToString(n) \o ".00"
           /\ n >= 25
           /\ ( /\ {1, 3, 4, 5} \subseteq engine.words
                /\ 2 \notin engine.words
                /\ engine.tags = {1, 3} )
                => n \in 125..144

\* C16 witness: the scenario's words and tags priced at the top of its range.
C16_Witness ==
  /\ engine.phase = "priced"
  /\ engine.words = {1, 3, 4, 5}
  /\ engine.tags = {1, 3}
  /\ engine.rand20 = 19
  /\ engine.price = "$144.00"

\* The labels of the keywords hat, shirt, dress, jacket; words 1 to 4 of
\* NameWords contain, in some letter case, the keyword of the same position.
SpecLabels == << "Premium Straw Hat", "Designer Shirt", "Elegant Dress", "Stylish Jacket" >>

KeywordsIn(S) == S \cap (1..4)

FirstKeyword(S) == CHOOSE k \in KeywordsIn(S) : \A j \in KeywordsIn(S) : k <= j

\* C17: when the first sentence contains keywords the name is the label of
\* the first of hat, shirt, dress, jacket it contains, whatever their order in
\* the text and whatever follows the first period; when it contains none the
\* name is no label, also when keywords follow the first period.
C17_KeywordPriority ==
  engine.phase = "named"
    => IF KeywordsIn(engine.words) # {}
       THEN engine.name = SpecLabels[FirstKeyword(engine.words)]
       ELSE \A k \in 1..4 : engine.name # SpecLabels[k]

\* C17 witness: the first sentence has shirt before hat (in upper case, inside
\* a longer word) and the hat label is returned.
C17_Witness ==
  /\ engine.phase = "named"
  /\ engine.words = {1, 2, 5}
  /\ engine.reversed = TRUE
  /\ engine.tail = ". A hat and shirt"
  /\ engine.name = "Premium Straw Hat"

\* The words 5 to 8 of NameWords with their first letter in upper case.
SpecCapitalized(word) ==
  IF word = "blue" THEN "Blue"
  ELSE IF word = "denim" THEN "Denim"
  ELSE IF word = "jeans" THEN "Jeans"
  ELSE IF word = "sLim" THEN "SLim"
  ELSE word

\* The first three, or fewer, words of the first sentence, capitalized.
SpecDefaultName(e) ==
  LET ws == NameWordsOf(e)
      n == IF Len(ws) < 3 THEN Len(ws) ELSE 3
  IN  Join([i \in 1..n |-> SpecCapitalized(ws[i])], " ")

\* C18: when the first sentence contains no keyword (also when the description
\* is empty or begins with a period) the name is a non-empty string made of
\* at most the first three words of the first sentence, each capitalized.
C18_DefaultNameNonEmpty ==
  (engine.phase = "named" /\ KeywordsIn(engine.words) = {})
    => /\ engine.name # ""
       /\ engine.name = SpecDefaultName(engine)

\* C18 without the requirement that the name is non-empty.
C18_DefaultNameShape ==
  (engine.phase = "named" /\ KeywordsIn(engine.words) = {})
    => engine.name = SpecDefaultName(engine)

\* The clock reading an identifier is the decimal form of.
IdTime(id) == CHOOSE t \in 0..MaxClock : ToString(t) = id

\* The identifiers of the cards in the list, first card first.
CardIds == [i \in 1..Len(generatedCards) |-> generatedCards[i].id]

\* C19 as stated: in every reachable state the cards in generatedCards have
\* pairwise distinct identifiers, and a card prepended later never has an
\* identifier smaller than one prepended earlier.
C19_UniqueMonotoneIds ==
  \A i \in 1..Len(CardIds) : \A j \in (i+1)..Len(CardIds) :
    /\ CardIds[i] # CardIds[j]
    /\ IdTime(CardIds[i]) >= IdTime(CardIds[j])

\* C19 amended: the identifier of a new card is the decimal form of the clock
\* reading at its settle step, so it equals the identifier of exactly the
\* cards that settled at the same reading; when no card in the list has an
\* identifier later than the clock (the clock was not set back behind a card),
\* the new card's identifier is not smaller than any identifier in the list.
C19_IdsFromClock ==
  /\ [][\A a \in Attempts :
          (pc[a] = "awaitJson" /\ pc'[a] = "succeeded")
            => LET newId == Head(generatedCards').id
               IN  /\ newId = ToString(now)
                   /\ \A i \in 1..Len(CardIds) :
                        (CardIds[i] = newId) <=> (IdTime(CardIds[i]) = now)
                   /\ (\A i \in 1..Len(CardIds) : IdTime(CardIds[i]) <= now)
                        => \A i \in 1..Len(CardIds) :
                             IdTime(newId) >= IdTime(CardIds[i])
      ]_vars
  /\ [](\A i \in 1..Len(CardIds) : \E t \in 0..MaxClock : CardIds[i] = ToString(t))

\* C19 witness: the clock was set back between two successful settle steps,
\* and the card prepended later has the smaller identifier.
C19_Witness ==
  /\ last.kind = "settle"
  /\ last.why = "success"
  /\ Len(generatedCards) = 2
  /\ CardIds[1] = Val(last.card).id
  /\ CardIds[1] # CardIds[2]
  /\ IdTime(CardIds[1]) < IdTime(CardIds[2])

\* C20: clearCards leaves every attempt where it was; an attempt in flight
\* when clearCards ran as the last operation on the store and that then
\* succeeds leaves generatedCards holding exactly its card, and one that then
\* fails leaves generatedCards empty and error set to its failure message.
C20_ClearDoesNotCancel ==
  [][/\ (last'.kind = "clear" /\ (last.kind # "clear" \/ storeVars' # storeVars))
          => (pc' = pc /\ requests' = requests /\ response' = response)
     /\ \A a \in Attempts :
          (last.kind = "clear" /\ pc[a] = "awaitJson" /\ pc'[a] = "succeeded")
            => /\ generatedCards' = << Val(last'.card) >>
               /\ generatedCards' # <<>>
     /\ \A a \in Attempts :
          (last.kind = "clear" /\ InFlight(a) /\ pc'[a] \in Settled \ {"succeeded"})
            => /\ pc'[a] = "failed"
               /\ error = Null
               /\ error' = Some(MessageOf(Val(last'.thrown)))
               /\ generatedCards' = <<>>
    ]_vars

\* C20 witness: attempt 1 was in flight from before the start of attempt 2
\* until after its settle; both succeeded, attempt 1 last, and the list holds
\* only the card of attempt 1: clearCards ran between the two settle steps,
\* while attempt 1 was in flight, and no call of generateProductCard followed.
C20_Witness ==
  /\ pc[1] = "succeeded"
  /\ pc[2] = "succeeded"
  /\ \A a \in Attempts : a > 2 => pc[a] = "idle"
  /\ last.kind = "settle"
  /\ last.attempt = 1
  /\ last.why = "success"
  /\ generatedCards = << Val(last.card) >>

====
